---- MODULE Spec2Model ----
(***************************************************************************)
(* Fragment animation trigger of gpu-article-assets.                       *)
(*                                                                         *)
(* Two variants of one immediately-invoked function:                       *)
(*   "plain" : src/apply-anim.js                                           *)
(*   "lang"  : src/examples/apply-anim.js  (language prefix)               *)
(*                                                                         *)
(* Strings are sequences of one-character strings, so that replace, split, *)
(* the regular expression and the selector match are computed on their     *)
(* characters.  An optional value (a variable that may be undefined) is a  *)
(* sequence of length 0 (undefined) or 1 (the value).                      *)
(***************************************************************************)
EXTENDS Integers, Sequences, FiniteSets, TLC

(***************************************************************************)
(* Bounds of the model.                                                    *)
(***************************************************************************)
\* number of ':'-separated tokens a fragment is built from
MaxTokens == 3
\* number of evaluations of the script on the same document
MaxRuns == 2

(***************************************************************************)
(* Character strings used as fragment tokens, tags and class names.        *)
(***************************************************************************)
Letters ==
  {"a","b","c","d","e","f","g","h","i","j","k","l","m",
   "n","o","p","q","r","s","t","u","v","w","x","y","z"}

empty == << >>
en == <<"e","n">>
ru == <<"r","u">>
ruby == <<"r","u","b","y">>
div == <<"d","i","v">>
cls_a == <<"a">>
cls_b == <<"b">>
anim_left == <<"a","n","i","m","-","l","e","f","t">>
undefinedStr == <<"u","n","d","e","f","i","n","e","d">>
sel_a == <<".","a">>
sel_en == <<".","e","n">>
sel_sibling == <<".","a","n","i","m","-","l","e","f","t","+","d","i","v">>
sel_bad == <<"[">>

\* the tokens fragments are built from
Vocab == { empty, en, ru, ruby, sel_en, sel_a, sel_sibling, anim_left, sel_bad }

Variants == {"plain", "lang"}

(***************************************************************************)
(* The documents the script is evaluated in: four sibling elements in      *)
(* document order, and the root element's lang attribute.  Tags gives the  *)
(* tag of each element; its last entry is the tag of the element that a    *)
(* page may append to the document after the script has run.               *)
(***************************************************************************)
Tags == << div, div, div, ruby, div >>

Docs ==
  { [ rootLang |-> << >>,
      classList |-> << <<cls_a>>, <<cls_b>>, << >>, <<en>> >> ],
    [ rootLang |-> <<ru>>,
      classList |-> << <<cls_a, anim_left>>, <<cls_a>>, << >>, <<en>> >> ] }

(***************************************************************************)
(* String primitives of the host language.                                 *)
(***************************************************************************)
Range(s) == { s[k] : k \in DOMAIN s }

\* String.prototype.indexOf for a one-character needle, 1-based, 0 if absent
IndexOf(s, c) ==
  IF \E k \in DOMAIN s : s[k] = c
    THEN CHOOSE k \in DOMAIN s : s[k] = c /\ \A j \in 1..(k-1) : s[j] # c
    ELSE 0

\* s.replace(c, ''): only the first occurrence is removed
ReplaceFirst(s, c) ==
  LET k == IndexOf(s, c)
  IN  IF k = 0 THEN s ELSE SubSeq(s, 1, k-1) \o SubSeq(s, k+1, Len(s))

\* variation: the string is cut at the first separator only
SplitFirstOnly(s, c) ==
  LET k == IndexOf(s, c)
  IN  IF k = 0 THEN << s >>
      ELSE << SubSeq(s, 1, k-1), SubSeq(s, k+1, Len(s)) >>

\* s.split(c): the empty string splits into one empty token
RECURSIVE Split(_, _)
Split(s, c) ==
  LET k == IndexOf(s, c)
  IN  IF k = 0 THEN << s >>
      ELSE << SubSeq(s, 1, k-1) >> \o Split(SubSeq(s, k+1, Len(s)), c)

\* Array.prototype.join
RECURSIVE Join(_, _)
Join(toks, c) ==
  IF Len(toks) = 0 THEN << >>
  ELSE IF Len(toks) = 1 THEN toks[1]
  ELSE toks[1] \o << c >> \o Join(Tail(toks), c)

StartsWith(s, p) == Len(s) >= Len(p) /\ SubSeq(s, 1, Len(p)) = p
EndsWith(s, p) == Len(s) >= Len(p) /\ SubSeq(s, Len(s) - Len(p) + 1, Len(s)) = p

\* arr[k] with a 0-based index: undefined beyond the end
At(arr, k) == IF k + 1 <= Len(arr) THEN << arr[k+1] >> ELSE << >>

\* truthiness of a string-or-undefined value
Truthy(v) == v # << >> /\ v[1] # << >>

\* ToString of an argument: undefined becomes "undefined"
ArgString(v) == IF v = << >> THEN undefinedStr ELSE v[1]

\* location.hash: "#" followed by the fragment, or "" for an empty fragment
LocationHash(fragment) == IF fragment = << >> THEN << >> ELSE <<"#">> \o fragment

(***************************************************************************)
(* supportedLangs = /^ru|en$/ : the alternation binds weaker than the      *)
(* anchors, so the expression is (^ru)|(en$).                              *)
(***************************************************************************)
\* variation: the 'en' alternative is forgotten
SupportedLangsTestRuOnly(s) == StartsWith(s, ru)

SupportedLangsTest(s) == StartsWith(s, ru) \/ EndsWith(s, en)

(***************************************************************************)
(* document.querySelectorAll on the selectors of the vocabulary: compound  *)
(* selectors  [type][.class]*  chained by the next-sibling combinator '+'. *)
(* Any other text is a syntax error.                                       *)
(***************************************************************************)
IsIdent(s) ==
  /\ Len(s) > 0
  /\ \A k \in DOMAIN s : s[k] \in Letters \cup {"-"}
  /\ \/ s[1] \in Letters
     \/ Len(s) >= 2 /\ s[2] \in Letters \cup {"-"}

ValidCompound(c) ==
  LET p == Split(c, ".")
  IN  /\ Len(c) > 0
      /\ p[1] = << >> \/ IsIdent(p[1])
      /\ \A k \in 2..Len(p) : IsIdent(p[k])

ValidSelector(sel) ==
  LET cs == Split(sel, "+")
  IN  \A k \in DOMAIN cs : ValidCompound(cs[k])

MatchesCompound(cl, e, c) ==
  LET p == Split(c, ".")
  IN  /\ p[1] = << >> \/ Tags[e] = p[1]
      /\ \A k \in 2..Len(p) : p[k] \in Range(cl[e])

RECURSIVE MatchesChain(_, _, _)
MatchesChain(cl, e, cs) ==
  LET n == Len(cs)
  IN  /\ MatchesCompound(cl, e, cs[n])
      /\ \/ n = 1
         \/ e > 1 /\ MatchesChain(cl, e - 1, SubSeq(cs, 1, n - 1))

\* element e matches selector sel in the document whose class lists are cl
Matches(cl, e, sel) == ValidSelector(sel) /\ MatchesChain(cl, e, Split(sel, "+"))

\* the static list of the matching elements, in document order
QuerySelectorAll(cl, sel) ==
  LET Hit(e) == Matches(cl, e, sel)
  IN  SelectSeq([e \in DOMAIN cl |-> e], Hit)

\* variation: the class attribute is overwritten (className = tok)
ClassListReplace(list, tok) == << tok >>

\* variation: the token is appended even when already present
ClassListAppend(list, tok) == Append(list, tok)

\* DOMTokenList.add: the token list is an ordered set
ClassListAdd(list, tok) == IF tok \in Range(list) THEN list ELSE Append(list, tok)

\* number of occurrences of tok in a token list
Count(list, tok) == Cardinality({ k \in DOMAIN list : list[k] = tok })

(***************************************************************************)
(* State.                                                                  *)
(***************************************************************************)
VARIABLES
  variant,      \* which of the two scripts the page loads
  fragToks,     \* the tokens the URL fragment was written from (input)
  hash,         \* location.hash
  rootLang,     \* lang attribute of document.documentElement (optional)
  classList,    \* element -> its class token list
  pc,           \* position of the function: start, split, setlang, guard, loop, done, error
  anim, parts, lang, elem, animClass, items, i,   \* the function's locals
  runs,         \* number of evaluations of the script started so far
  langWrites,   \* setAttribute('lang', ..) calls of the current evaluation
  queries,      \* querySelectorAll calls of the current evaluation
  adds,         \* classList.add calls of the current evaluation
  rootLang0, classList0,      \* the document before the first evaluation
  rootLangRun, classListRun,  \* the document when the current evaluation started
  prevRun       \* the previous evaluation: the document it started from and how it ended

vars ==
  << variant, fragToks, hash, rootLang, classList, pc,
     anim, parts, lang, elem, animClass, items, i,
     runs, langWrites, queries, adds,
     rootLang0, classList0, rootLangRun, classListRun, prevRun >>

locals == << anim, parts, lang, elem, animClass, items, i >>
dom == << rootLang, classList >>
input == << variant, fragToks, hash >>
snapshots == << rootLang0, classList0, rootLangRun, classListRun, prevRun >>

\* the elements of the document, in document order
Elements == DOMAIN classList
counters == << langWrites, queries, adds >>

TokenSeqs == UNION { [1..n -> Vocab] : n \in 1..MaxTokens }

Init ==
  /\ variant \in Variants
  /\ fragToks \in TokenSeqs
  /\ hash = LocationHash(Join(fragToks, ":"))
  /\ \E d \in Docs :
       /\ rootLang = d.rootLang
       /\ classList = d.classList
       /\ rootLang0 = d.rootLang
       /\ classList0 = d.classList
       /\ rootLangRun = d.rootLang
       /\ classListRun = d.classList
  /\ pc = "start"
  /\ anim = << >>
  /\ parts = << >>
  /\ lang = << >>
  /\ elem = << >>
  /\ animClass = << >>
  /\ items = << >>
  /\ i = 0
  /\ runs = 1
  /\ langWrites = 0
  /\ queries = 0
  /\ adds = 0
  /\ prevRun = << >>

(***************************************************************************)
(* The conditions of the function.                                         *)
(***************************************************************************)
\* variation: another fallback language
FallbackLangRu == ru

\* the fallback of  supportedLangs.test(..) ? parts.shift() : 'en'
FallbackLang == en

\* variation: the empty fragment is not filtered out
EarlyReturnNever(a) == FALSE

\* if (!anim) return;
EarlyReturn(a) == a = << >>

\* variation: only the selector is required
GuardElemOnly(e, c) == Truthy(e)

\* variation: either token suffices
GuardEither(e, c) == Truthy(e) \/ Truthy(c)

\* if (elem && animClass)
Guard(e, c) == Truthy(e) /\ Truthy(c)

\* variation: the loop stops one element early
LoopCondShort(k, list) == k < Len(list) - 1

\* i < items.length
LoopCond(k, list) == k < Len(list)

\* variation: the SyntaxError is swallowed and the function returns normally
QueryOutcomeCaught(sel) == IF ValidSelector(sel) THEN "loop" ELSE "done"

\* what follows the query: the loop, or the SyntaxError leaving the function
QueryOutcome(sel) == IF ValidSelector(sel) THEN "loop" ELSE "error"

(***************************************************************************)
(* The steps of the function.                                              *)
(***************************************************************************)
\* variation: a hidden flag makes every evaluation after the first return at once
ReadHashOnce ==
  /\ pc = "start"
  /\ anim' = ReplaceFirst(hash, "#")
  /\ pc' = IF EarlyReturn(anim') \/ runs > 1 THEN "done" ELSE "split"
  /\ UNCHANGED << input, dom, parts, lang, elem, animClass, items, i,
                  runs, counters, snapshots >>

\* variation: the function is also registered as a hashchange listener
ReadHashOnChange ==
  /\ \/ pc = "start"
     \/ pc = "done" /\ ReplaceFirst(hash, "#") # anim
  /\ anim' = ReplaceFirst(hash, "#")
  /\ pc' = IF EarlyReturn(anim') THEN "done" ELSE "split"
  /\ UNCHANGED << input, dom, parts, lang, elem, animClass, items, i,
                  runs, counters, snapshots >>

\* var anim = location.hash.replace('#', ''); if (!anim) return;
ReadHash ==
  /\ pc = "start"
  /\ anim' = ReplaceFirst(hash, "#")
  /\ pc' = IF EarlyReturn(anim') THEN "done" ELSE "split"
  /\ UNCHANGED << input, dom, parts, lang, elem, animClass, items, i,
                  runs, counters, snapshots >>

\* variation: the plain script takes a leading language off the tokens as well
ParsePlainStrips ==
  /\ pc = "split"
  /\ variant = "plain"
  /\ LET p == Split(anim, ":")
     IN  parts' = IF SupportedLangsTest(p[1]) THEN Tail(p) ELSE p
  /\ elem' = At(parts', 0)
  /\ animClass' = At(parts', 1)
  /\ pc' = "guard"
  /\ UNCHANGED << input, dom, anim, lang, items, i, runs, counters, snapshots >>

\* src/apply-anim.js: parts, elem, animClass
ParsePlain ==
  /\ pc = "split"
  /\ variant = "plain"
  /\ parts' = Split(anim, ":")
  /\ elem' = At(parts', 0)
  /\ animClass' = At(parts', 1)
  /\ pc' = "guard"
  /\ UNCHANGED << input, dom, anim, lang, items, i, runs, counters, snapshots >>

\* variation: the language is read from the first token but not taken off
ParseLangNoShift ==
  /\ pc = "split"
  /\ variant = "lang"
  /\ LET p == Split(anim, ":")
         first == IF Truthy(At(p, 0)) THEN p[1] ELSE << >>
     IN  /\ lang' = IF SupportedLangsTest(first) THEN << Head(p) >> ELSE << FallbackLang >>
         /\ parts' = p
  /\ elem' = At(parts', 0)
  /\ animClass' = At(parts', 1)
  /\ pc' = "setlang"
  /\ UNCHANGED << input, dom, anim, items, i, runs, counters, snapshots >>

\* src/examples/apply-anim.js: parts, lang, elem, animClass
ParseLang ==
  /\ pc = "split"
  /\ variant = "lang"
  /\ LET p == Split(anim, ":")
         first == IF Truthy(At(p, 0)) THEN p[1] ELSE << >>
     IN  IF SupportedLangsTest(first)
           THEN /\ lang' = << Head(p) >>
                /\ parts' = Tail(p)
           ELSE /\ lang' = << FallbackLang >>
                /\ parts' = p
  /\ elem' = At(parts', 0)
  /\ animClass' = At(parts', 1)
  /\ pc' = "setlang"
  /\ UNCHANGED << input, dom, anim, items, i, runs, counters, snapshots >>

\* variation: setAttribute is moved inside  if (elem && animClass)
SetLangGuarded ==
  /\ pc = "setlang"
  /\ IF Guard(elem, animClass)
       THEN /\ rootLang' = << ArgString(lang) >>
            /\ langWrites' = langWrites + 1
       ELSE UNCHANGED << rootLang, langWrites >>
  /\ pc' = "guard"
  /\ UNCHANGED << input, classList, locals, runs, queries, adds, snapshots >>

\* document.documentElement.setAttribute('lang', lang);
SetLang ==
  /\ pc = "setlang"
  /\ rootLang' = << ArgString(lang) >>
  /\ langWrites' = langWrites + 1
  /\ pc' = "guard"
  /\ UNCHANGED << input, classList, locals, runs, queries, adds, snapshots >>

\* if (elem && animClass) { var items = document.querySelectorAll(elem);
QueryStep ==
  /\ pc = "guard"
  /\ IF Guard(elem, animClass)
       THEN /\ queries' = queries + 1
            /\ pc' = QueryOutcome(ArgString(elem))
            /\ items' = IF pc' = "loop"
                          THEN QuerySelectorAll(classList, ArgString(elem))
                          ELSE items
            /\ i' = 0
       ELSE /\ pc' = "done"
            /\ UNCHANGED << queries, items, i >>
  /\ UNCHANGED << input, dom, anim, parts, lang, elem, animClass,
                  runs, langWrites, adds, snapshots >>

\* for (var i = 0; i < items.length; i++) items[i].classList.add(animClass);
LoopStep ==
  /\ pc = "loop"
  /\ IF LoopCond(i, items)
       THEN /\ classList' = [classList EXCEPT
                               ![items[i+1]] = ClassListAdd(@, ArgString(animClass))]
            /\ adds' = adds + 1
            /\ i' = i + 1
            /\ pc' = pc
       ELSE /\ pc' = "done"
            /\ UNCHANGED << classList, adds, i >>
  /\ UNCHANGED << input, rootLang, anim, parts, lang, elem, animClass, items,
                  runs, langWrites, queries, snapshots >>

\* the script is evaluated again with the same fragment on the same document
Rerun ==
  /\ pc \in {"done", "error"}
  /\ runs < MaxRuns
  /\ runs' = runs + 1
  /\ pc' = "start"
  /\ anim' = << >>
  /\ parts' = << >>
  /\ lang' = << >>
  /\ elem' = << >>
  /\ animClass' = << >>
  /\ items' = << >>
  /\ i' = 0
  /\ langWrites' = 0
  /\ queries' = 0
  /\ adds' = 0
  /\ rootLangRun' = rootLang
  /\ classListRun' = classList
  /\ prevRun' = << [ start |-> << rootLangRun, classListRun >>,
                    end |-> << pc, rootLang, classList >> ] >>
  /\ UNCHANGED << input, dom, rootLang0, classList0 >>

(***************************************************************************)
(* The function as a whole: the outcome, the lang attribute and the class  *)
(* lists it ends with, from the variant v, location.hash h and the         *)
(* document (lang attribute rl, class lists cl) it is evaluated in.        *)
(***************************************************************************)
RunResult(v, h, rl, cl) ==
  LET a == ReplaceFirst(h, "#")
      p0 == Split(a, ":")
      taken == v = "lang" /\ (StartsWith(p0[1], ru) \/ EndsWith(p0[1], en))
      p == IF taken THEN Tail(p0) ELSE p0
      written == IF v = "lang" THEN << IF taken THEN p0[1] ELSE en >> ELSE rl
      sel == At(p, 0)
      cls == At(p, 1)
  IN  IF a = << >> THEN << "done", rl, cl >>
      ELSE IF sel = << >> \/ sel[1] = << >> \/ cls = << >> \/ cls[1] = << >>
        THEN << "done", written, cl >>
      ELSE IF ~ValidSelector(sel[1]) THEN << "error", written, cl >>
      ELSE << "done", written,
              [ e \in DOMAIN cl |->
                  IF Matches(cl, e, sel[1])
                    THEN IF cls[1] \in Range(cl[e]) THEN cl[e] ELSE Append(cl[e], cls[1])
                    ELSE cl[e] ] >>

Next ==
  \/ ReadHash
  \/ ParsePlain
  \/ ParseLang
  \/ SetLang
  \/ QueryStep
  \/ LoopStep
  \/ Rerun

Spec == Init /\ [][Next]_vars

\* the function has returned or thrown
Finished == pc \in {"done", "error"}

\* one step of the function
Step == ReadHash \/ ParsePlain \/ ParseLang \/ SetLang \/ QueryStep \/ LoopStep

(***************************************************************************)
(* The life of one page: the script is evaluated once (the function is     *)
(* invoked where it is defined and registers no listener or timer); after  *)
(* it has returned or thrown, the page goes on: the user or another script *)
(* changes the URL fragment, elements are appended to the document.  The   *)
(* function runs to completion, so nothing happens in between its steps.   *)
(***************************************************************************)
\* the fragments the page is navigated to later
LaterFragments == { << sel_a, anim_left >>, << ru, sel_a, anim_left >>, << empty >> }

\* location.hash changes after the script has been evaluated
HashChange ==
  /\ Finished
  /\ \E t \in LaterFragments :
       /\ t # fragToks
       /\ fragToks' = t
       /\ hash' = LocationHash(Join(t, ":"))
  /\ UNCHANGED << variant, dom, pc, locals, runs, counters, snapshots >>

\* an element <div class="a"> is appended to the document
InsertElement ==
  /\ Finished
  /\ Len(classList) < Len(Tags)
  /\ classList' = Append(classList, << cls_a >>)
  /\ UNCHANGED << input, rootLang, pc, locals, runs, counters, snapshots >>

NextPage ==
  \/ ReadHash
  \/ ParsePlain
  \/ ParseLang
  \/ SetLang
  \/ QueryStep
  \/ LoopStep
  \/ HashChange
  \/ InsertElement

SpecPage == Init /\ [][NextPage]_vars

TypeOK ==
  /\ variant \in Variants
  /\ pc \in {"start", "split", "setlang", "guard", "loop", "done", "error"}
  /\ runs \in 1..MaxRuns
  /\ i \in 0..Len(items)
  /\ Len(lang) <= 1 /\ Len(elem) <= 1 /\ Len(animClass) <= 1 /\ Len(rootLang) <= 1

(***************************************************************************)
(* Vocabulary of the properties.                                           *)
(***************************************************************************)
AfterLangWrite == pc \in {"guard", "loop", "done", "error"}
FirstTok == fragToks[1]
IsLangCode(t) == t \in {ru, en}
\* the value is undefined or the empty string
Missing(v) == v = << >> \/ v[1] = << >>
\* element e was matched by the query of the current evaluation
MatchedThisRun(e) == Matches(classListRun, e, ArgString(elem))
HasClass(e, c) == c \in Range(classList[e])

(***************************************************************************)
(* C1: with an empty (or absent) fragment the function returns at once:    *)
(* the root lang attribute and every class list stay as they were, and no  *)
(* write or query is made, in both variants.                               *)
(***************************************************************************)
C1_EmptyFragmentNoEffect ==
  hash = << >> =>
    /\ rootLang = rootLang0
    /\ classList = classList0
    /\ langWrites = 0 /\ queries = 0 /\ adds = 0

C1_Witness ==
  /\ variant = "lang" /\ hash = << >> /\ pc = "done" /\ runs = 2
  /\ rootLang0 = <<ru>> /\ rootLang = <<ru>>

(***************************************************************************)
(* C2 as stated: after a run with non-empty selector and class tokens and  *)
(* a valid selector, every element that matches the selector in the        *)
(* resulting document has the class.                                       *)
(***************************************************************************)
C2_Claim ==
  (pc = "done" /\ ~Missing(elem) /\ ~Missing(animClass) /\ ValidSelector(elem[1])) =>
    \A e \in Elements : Matches(classList, e, elem[1]) => HasClass(e, animClass[1])

(***************************************************************************)
(* C2 amended: after such a run every element that matched the selector    *)
(* when the query was issued has the class.                                *)
(***************************************************************************)
C2_MatchedElementsGetClass ==
  (pc = "done" /\ ~Missing(elem) /\ ~Missing(animClass) /\ ValidSelector(elem[1])) =>
    \A e \in Elements :
      Matches(classListRun, e, elem[1]) => HasClass(e, animClass[1])

C2_Witness ==
  /\ pc = "done" /\ runs = 1 /\ adds = 2
  /\ elem = << sel_a >> /\ animClass = << anim_left >>
  /\ ~(anim_left \in Range(classList0[2])) /\ HasClass(2, anim_left)

(***************************************************************************)
(* C3: language-aware variant, fragment L:S:C with L one of en, ru: the    *)
(* root lang attribute becomes L, S is the selector and C the class name,  *)
(* and when the run is done every element S matched has class C.           *)
(***************************************************************************)
C3_LangSelectorClass ==
  (variant = "lang" /\ Len(fragToks) = 3 /\ IsLangCode(FirstTok) /\ AfterLangWrite) =>
    /\ rootLang = << fragToks[1] >>
    /\ elem = << fragToks[2] >>
    /\ animClass = << fragToks[3] >>
    /\ (pc = "done" /\ fragToks[2] # << >> /\ fragToks[3] # << >>) =>
         \A e \in Elements :
           Matches(classListRun, e, fragToks[2]) => HasClass(e, fragToks[3])

C3_Witness ==
  /\ variant = "lang" /\ fragToks = << en, sel_a, anim_left >> /\ pc = "done"
  /\ rootLang0 = <<ru>> /\ rootLang = <<en>>
  /\ HasClass(1, anim_left) /\ HasClass(2, anim_left) /\ ~HasClass(3, anim_left)

(***************************************************************************)
(* C4 as stated: in the language-aware variant the first token is taken    *)
(* off the tokens and used as the language if and only if it is ru or en;  *)
(* any other first token stays the selector.                               *)
(***************************************************************************)
C4_Claim ==
  (variant = "lang" /\ hash # << >> /\ pc \notin {"start", "split"}) =>
    /\ (parts = Tail(fragToks) /\ lang = << FirstTok >>) <=> IsLangCode(FirstTok)
    /\ ~IsLangCode(FirstTok) => (parts = fragToks /\ elem = << FirstTok >>)

(***************************************************************************)
(* C5 as stated: a fragment of one token without ':' mutates nothing in    *)
(* either variant: no class list changes and the root lang attribute is    *)
(* not written.                                                            *)
(***************************************************************************)
C5_Claim ==
  (Len(fragToks) = 1 /\ FirstTok # << >>) =>
    /\ classList = classList0
    /\ langWrites = 0
    /\ rootLang = rootLang0

(***************************************************************************)
(* C5 amended: a fragment of one token without ':' changes no class list   *)
(* and issues no query in either variant; the plain variant does not write *)
(* the root lang attribute, the language-aware variant writes it once: the *)
(* token itself when it starts with ru or ends with en, otherwise en.      *)
(***************************************************************************)
C5_SingleToken ==
  (Len(fragToks) = 1 /\ FirstTok # << >>) =>
    /\ classList = classList0
    /\ queries = 0 /\ adds = 0
    /\ variant = "plain" => (langWrites = 0 /\ rootLang = rootLang0)
    /\ (variant = "lang" /\ AfterLangWrite) =>
         /\ langWrites = 1
         /\ rootLang = << IF StartsWith(FirstTok, ru) \/ EndsWith(FirstTok, en)
                            THEN FirstTok ELSE en >>

C5_Witness ==
  /\ variant = "lang" /\ fragToks = << sel_a >> /\ pc = "done"
  /\ rootLang0 = <<ru>> /\ rootLang = <<en>> /\ classList = classList0

(***************************************************************************)
(* C6 as stated: language-aware variant, non-empty fragment whose first    *)
(* token is not ru or en: the root lang attribute is set to en and no      *)
(* token is consumed, the first token is the selector and the second the   *)
(* class name.                                                             *)
(***************************************************************************)
C6_Claim ==
  (variant = "lang" /\ hash # << >> /\ ~IsLangCode(FirstTok) /\ AfterLangWrite) =>
    /\ rootLang = << en >>
    /\ parts = fragToks
    /\ elem = At(fragToks, 0)
    /\ animClass = At(fragToks, 1)

(***************************************************************************)
(* C7 as stated: when the fragment carries no language code the root lang  *)
(* attribute is not mutated.                                               *)
(***************************************************************************)
C7_Claim ==
  ~IsLangCode(FirstTok) => (langWrites = 0 /\ rootLang = rootLang0)

(***************************************************************************)
(* C7 amended: the root lang attribute is left alone by the plain variant  *)
(* and by an empty fragment only; in the language-aware variant every      *)
(* non-empty fragment causes one write of it, of the fallback en when the  *)
(* first token is not taken as the language (it neither starts with ru     *)
(* nor ends with en).                                                      *)
(***************************************************************************)
C7_LangWrittenUnlessEmpty ==
  /\ (variant = "plain" \/ hash = << >>) => (langWrites = 0 /\ rootLang = rootLang0)
  /\ (variant = "lang" /\ hash # << >> /\ AfterLangWrite) =>
       /\ langWrites = 1
       /\ rootLang = lang
       /\ ~(StartsWith(FirstTok, ru) \/ EndsWith(FirstTok, en)) => rootLang = << en >>

C7_Witness ==
  /\ variant = "lang" /\ fragToks = << sel_a, anim_left >> /\ pc = "done"
  /\ rootLang0 = <<ru>> /\ rootLang = <<en>> /\ langWrites = 1

(***************************************************************************)
(* C8 as stated: a second run with the same fragment on the same document  *)
(* ends in the state the first run ended in; every matched element holds   *)
(* the class exactly once and the lang attribute has the same value.       *)
(***************************************************************************)
C8_Claim ==
  (runs >= 2 /\ Finished) =>
    /\ classList = classListRun
    /\ rootLang = rootLangRun
    /\ (pc = "done" /\ Guard(elem, animClass)) =>
         \A e \in Elements :
           MatchedThisRun(e) => Count(classList[e], animClass[1]) = 1

(***************************************************************************)
(* C8 amended: after a second run the lang attribute has the value the     *)
(* first run left, every element the first run matched keeps the class     *)
(* list the first run left it with, and every matched element holds the    *)
(* class exactly once.  (Elements the first run did not match can still    *)
(* gain the class in the second run, when the class just added makes them  *)
(* match, as with .anim-left+div:anim-left.)                               *)
(***************************************************************************)
C8_RerunKeepsMatched ==
  /\ (runs >= 2 /\ Finished) =>
       /\ rootLang = rootLangRun
       /\ Guard(elem, animClass) =>
            \A e \in Elements :
              Matches(classList0, e, elem[1]) => classList[e] = classListRun[e]
  /\ (pc = "done" /\ Guard(elem, animClass)) =>
       \A e \in Elements :
         MatchedThisRun(e) => Count(classList[e], animClass[1]) = 1

C8_Witness ==
  /\ runs = 2 /\ pc = "done" /\ adds = 2
  /\ elem = << sel_a >> /\ animClass = << anim_left >>
  /\ classList = classListRun /\ classList # classList0
  /\ Count(classList[1], anim_left) = 1 /\ Count(classList[2], anim_left) = 1

(***************************************************************************)
(* C9: whenever the selector or the class name (after the language has     *)
(* been taken off) is missing or empty, no query is issued and no class    *)
(* list changes; in the plain variant these are the fragments with fewer   *)
(* than two tokens or an empty first or second token.                      *)
(***************************************************************************)
C9_NoQueryWithoutBoth ==
  /\ (pc \in {"guard", "loop", "done", "error"} /\ (Missing(elem) \/ Missing(animClass))) =>
       /\ queries = 0 /\ adds = 0
       /\ pc \in {"guard", "done"}
       /\ classList = classListRun
  /\ (variant = "plain" /\
        (Len(fragToks) < 2 \/ fragToks[1] = << >> \/ fragToks[2] = << >>)) =>
       /\ queries = 0 /\ adds = 0
       /\ classList = classList0

C9_Witness ==
  /\ variant = "lang" /\ fragToks = << en, sel_a >> /\ pc = "done"
  /\ elem = << sel_a >> /\ animClass = << >>
  /\ queries = 0 /\ classList = classList0

(***************************************************************************)
(* C10: with a syntactically invalid selector the failure of the query     *)
(* leaves the function: the run ends in the error outcome and never in the *)
(* normal one, and that run has changed no class list.                     *)
(***************************************************************************)
C10_InvalidSelectorThrows ==
  /\ pc = "error" =>
       /\ ~Missing(elem) /\ ~Missing(animClass)
       /\ ~ValidSelector(elem[1])
       /\ queries = 1 /\ adds = 0
       /\ classList = classListRun
  /\ (pc \in {"loop", "done"} /\ ~Missing(elem) /\ ~Missing(animClass)) =>
       ValidSelector(elem[1])

C10_Witness ==
  /\ pc = "error" /\ variant = "plain"
  /\ fragToks = << sel_bad, anim_left >> /\ elem = << sel_bad >>
  /\ classList = classList0

(***************************************************************************)
(* C11: determinism.  The outcome (normal or error), the lang attribute    *)
(* and the class lists a run ends with are a function of the variant, the  *)
(* fragment string and the document the run started from; and whenever two *)
(* successive runs start from the same document (same fragment), they end  *)
(* in the same outcome, lang attribute and class lists.                    *)
(***************************************************************************)
C11_Deterministic ==
  /\ Finished =>
       << pc, rootLang, classList >> = RunResult(variant, hash, rootLangRun, classListRun)
  /\ (Finished /\ prevRun # << >> /\ prevRun[1].start = << rootLangRun, classListRun >>) =>
       prevRun[1].end = << pc, rootLang, classList >>

C11_Witness ==
  /\ runs = 2 /\ pc = "error" /\ variant = "lang"
  /\ fragToks = << ru, sel_bad, anim_left >>
  /\ prevRun # << >>
  /\ prevRun[1].start = << rootLangRun, classListRun >>
  /\ prevRun[1].end = << "error", <<ru>>, classList >>

(***************************************************************************)
(* C12: the function runs once, at script evaluation, and to completion.   *)
(* Once it has returned or thrown it stays finished: a later change of the *)
(* URL fragment or a later insertion of a matching element causes no       *)
(* further call of setAttribute, querySelectorAll or classList.add, the    *)
(* lang attribute keeps its value and every element keeps its class list.  *)
(***************************************************************************)
C12_RunsOnce ==
  [][ Finished =>
        /\ pc' = pc
        /\ runs' = 1
        /\ rootLang' = rootLang
        /\ \A e \in DOMAIN classList : classList'[e] = classList[e]
        /\ << langWrites, queries, adds >>' = << langWrites, queries, adds >> ]_vars

C12_Witness ==
  /\ pc = "done" /\ variant = "lang"
  /\ anim = << "." , "e", "n" >>
  /\ fragToks = << sel_a, anim_left >>
  /\ Len(classList) = 5 /\ Matches(classList, 5, sel_a)
  /\ ~(anim_left \in Range(classList[5]))
  /\ rootLang = << sel_en >>

(***************************************************************************)
(* C13: the plain variant uses the tokens as they are: the first token is  *)
(* the selector and the second the class name whatever they are (a leading *)
(* en or ru is not taken off), it never writes the root lang attribute,    *)
(* and after a normal run every element the selector matched has the       *)
(* class (.a:anim-left gives anim-left to the elements matching .a).       *)
(***************************************************************************)
C13_PlainUsesTokensDirectly ==
  variant = "plain" =>
    /\ langWrites = 0 /\ rootLang = rootLang0 /\ lang = << >>
    /\ (hash # << >> /\ pc \in {"guard", "loop", "done", "error"}) =>
         /\ parts = fragToks
         /\ elem = At(fragToks, 0)
         /\ animClass = At(fragToks, 1)
    /\ (pc = "done" /\ Len(fragToks) >= 2 /\ fragToks[1] # << >> /\ fragToks[2] # << >>) =>
         \A e \in Elements :
           Matches(classListRun, e, fragToks[1]) => HasClass(e, fragToks[2])

C13_Witness ==
  /\ variant = "plain" /\ fragToks = << en, sel_a, anim_left >> /\ pc = "done"
  /\ elem = << en >> /\ animClass = << sel_a >>
  /\ queries = 1 /\ adds = 0 /\ rootLang = rootLang0

(***************************************************************************)
(* C14: every run terminates (an unfinished run can always take a step,    *)
(* and every step lowers a bound on the steps that are left); a run writes *)
(* the lang attribute at most once and issues at most one query; when the  *)
(* query succeeds with N matched elements the loop makes exactly N         *)
(* classList.add calls, one per matched element, in query order, and stops *)
(* after the N-th.                                                         *)
(***************************************************************************)
C14_LoopShape ==
  /\ langWrites <= 1 /\ queries <= 1
  /\ pc = "error" => adds = 0
  /\ (pc \in {"loop", "done"} /\ queries = 1) =>
       /\ Len(items) = Cardinality({ e \in Elements : Matches(classListRun, e, elem[1]) })
       /\ \A j, k \in DOMAIN items : j < k => items[j] < items[k]
       /\ adds = i /\ i <= Len(items)
       /\ \A k \in 1..i : HasClass(items[k], animClass[1])
       /\ \A k \in (i+1)..Len(items) : classList[items[k]] = classListRun[items[k]]
       /\ pc = "done" => adds = Len(items)
  /\ (pc = "done" /\ queries = 0) => adds = 0

\* the number of steps the current run can still take, at most
C14_StepsLeft ==
  CASE pc = "start" -> Len(classList) + 5
    [] pc = "split" -> Len(classList) + 4
    [] pc = "setlang" -> Len(classList) + 3
    [] pc = "guard" -> Len(classList) + 2
    [] pc = "loop" -> Len(items) - i + 1
    [] OTHER -> 0

\* the guards of the steps: some step of the function can be taken
C14_SomeStepEnabled ==
  \/ pc = "start"
  \/ pc = "split" /\ (variant = "plain" \/ variant = "lang")
  \/ pc = "setlang"
  \/ pc = "guard"
  \/ pc = "loop"

C14_TerminatesWithNAdds ==
  /\ []C14_LoopShape
  /\ [](~Finished => C14_SomeStepEnabled)
  /\ [][~Finished => (C14_StepsLeft' < C14_StepsLeft /\ C14_StepsLeft' >= 0)]_vars

C14_Witness ==
  /\ pc = "done" /\ variant = "lang" /\ langWrites = 1 /\ queries = 1
  /\ Len(items) = 2 /\ adds = 2 /\ i = 2
  /\ items = << 1, 2 >>

(***************************************************************************)
(* C15 as stated: in the language-aware variant the value written to the   *)
(* root lang attribute is ru or en, never another string of the fragment.  *)
(***************************************************************************)
C15_Claim ==
  (variant = "lang" /\ langWrites >= 1) => rootLang \in { << ru >>, << en >> }

(***************************************************************************)
(* C16: frame of a run.  A run only adds the one class name to the         *)
(* elements its query matched: every other element keeps its class list,   *)
(* a matched element keeps all the classes it had, in their order, and     *)
(* gains at most the class name; no class is ever removed, over all runs,  *)
(* and no element is created or removed.  (The lang attribute and the      *)
(* class lists are all of the document the model holds.)                   *)
(***************************************************************************)
C16_OnlyAddsToMatched ==
  /\ DOMAIN classList = DOMAIN classList0
  /\ \A e \in Elements :
       /\ Len(classList[e]) >= Len(classListRun[e])
       /\ SubSeq(classList[e], 1, Len(classListRun[e])) = classListRun[e]
       /\ Len(classList[e]) <= Len(classListRun[e]) + 1
       /\ Range(classList[e]) \subseteq Range(classListRun[e]) \cup { ArgString(animClass) }
       /\ Range(classList0[e]) \subseteq Range(classList[e])
       /\ ~(~Missing(elem) /\ ~Missing(animClass) /\ MatchedThisRun(e)) =>
            classList[e] = classListRun[e]

C16_Witness ==
  /\ variant = "plain" /\ fragToks = << ruby, anim_left >> /\ pc = "done" /\ runs = 1
  /\ classList[4] = << en, anim_left >>
  /\ \A e \in 1..3 : classList[e] = classList0[e]
  /\ rootLang = rootLang0

(***************************************************************************)
(* C17: order of effects in the language-aware variant.  The lang          *)
(* attribute is written before the query and before any class is added; a  *)
(* run that ends in the selector failure has written the lang attribute    *)
(* all the same (and changed no class list); every run on a non-empty      *)
(* fragment writes it, also when no class is applied.                      *)
(***************************************************************************)
C17_LangWriteFirst ==
  variant = "lang" =>
    /\ langWrites = 0 => (queries = 0 /\ adds = 0)
    /\ (queries >= 1 \/ adds >= 1) => (langWrites = 1 /\ rootLang = lang)
    /\ pc = "error" => (langWrites = 1 /\ rootLang = lang /\ classList = classListRun)
    /\ (hash # << >> /\ Finished) => (langWrites = 1 /\ rootLang = lang)

C17_Witness ==
  /\ variant = "lang" /\ pc = "error" /\ runs = 1
  /\ fragToks = << sel_bad, anim_left >>
  /\ rootLang0 = << ru >> /\ rootLang = << en >>
  /\ classList = classList0

(***************************************************************************)
(* C18: the two variants differ in the lang attribute only.  A finished    *)
(* run of the language-aware variant ends in the outcome and the class     *)
(* lists the plain variant ends in on the same document: with the same     *)
(* fragment when the first token was not taken as the language, with the   *)
(* fragment S:C.. when L of L:S:C.. was taken (the tokens the variant      *)
(* takes are those that start with ru or end with en).                     *)
(***************************************************************************)
C18_VariantsAgreeOnClasses ==
  (variant = "lang" /\ Finished) =>
    LET taken == hash # << >> /\ (StartsWith(FirstTok, ru) \/ EndsWith(FirstTok, en))
        plainHash == IF taken THEN LocationHash(Join(Tail(fragToks), ":")) ELSE hash
        r == RunResult("plain", plainHash, rootLangRun, classListRun)
    IN  /\ pc = r[1]
        /\ classList = r[3]

C18_Witness ==
  /\ variant = "lang" /\ fragToks = << ru, sel_a, anim_left >> /\ pc = "done"
  /\ parts = << sel_a, anim_left >>
  /\ adds = 1 /\ classList # classListRun
  /\ classList = RunResult("plain", LocationHash(Join(<< sel_a, anim_left >>, ":")),
                           rootLangRun, classListRun)[3]

(***************************************************************************)
(* C19: tokenisation.  After the language has been taken off, the selector *)
(* is the text before the first ':' and the class name the text between    *)
(* the first and the second ':'; what follows is ignored, so the run ends  *)
(* as the run on the fragment cut after the class name; a selector is      *)
(* never passed to the query with a ':' in it.                             *)
(***************************************************************************)
C19_Tokenisation ==
  LET taken == variant = "lang" /\ hash # << >> /\ parts = Tail(fragToks)
      rest == IF taken THEN SubSeq(anim, Len(FirstTok) + 2, Len(anim)) ELSE anim
      k1 == IndexOf(rest, ":")
      after1 == SubSeq(rest, k1 + 1, Len(rest))
      k2 == IndexOf(after1, ":")
      used == IF taken THEN 3 ELSE 2
      cut == SubSeq(fragToks, 1, IF Len(fragToks) < used THEN Len(fragToks) ELSE used)
  IN  /\ (hash # << >> /\ pc \in {"guard", "loop", "done", "error"}) =>
           IF taken /\ Len(fragToks) = 1
             THEN elem = << >> /\ animClass = << >>
             ELSE /\ elem = << IF k1 = 0 THEN rest ELSE SubSeq(rest, 1, k1 - 1) >>
                  /\ animClass = IF k1 = 0 THEN << >>
                                 ELSE << IF k2 = 0 THEN after1 ELSE SubSeq(after1, 1, k2 - 1) >>
      /\ queries >= 1 => ~(":" \in Range(elem[1]))
      /\ Finished =>
           << pc, rootLang, classList >> =
             RunResult(variant, LocationHash(Join(cut, ":")), rootLangRun, classListRun)

C19_Witness ==
  /\ variant = "plain" /\ fragToks = << sel_a, anim_left, sel_bad >> /\ pc = "done"
  /\ elem = << sel_a >> /\ animClass = << anim_left >>
  /\ adds = 1 /\ HasClass(1, anim_left) /\ ~(anim_left \in Range(classList0[1]))

====
